---- MODULE Spec2Model ----
(***************************************************************************)
(* State-machine model of the post controller of threads_backend           *)
(* (src/controllers/postController.js).  Every request handler is an       *)
(* async function: the code between two awaits runs atomically, and each   *)
(* await is a point where other requests interleave.  One action models    *)
(* one such segment: the resolution of an await (the store / collaborator  *)
(* operation takes effect) followed by the synchronous code up to the next *)
(* await or the response.                                                  *)
(***************************************************************************)
EXTENDS Integers, Sequences, FiniteSets, TLC

\* ---------------------------------------------------------------- bounds
MaxRequests == 2        \* requests started in one behaviour
MaxMutations == 3       \* requests started in one behaviour of SpecMutations

\* ------------------------------------------------------ program constants
maxLength == 500

\* --------------------------------------------------------------- universe
Procs == {"h1", "h2"}                  \* concurrently running handlers
AllIds == {"u1", "u2", "u3"}           \* identities a request may carry
UserStore == {"u1", "u2"}              \* identities with a User record
Callers == UserStore                   \* req.user of the protected routes
NoUser == "none"                       \* postedBy missing from the body
NoImg == <<>>                          \* img absent
RawImg == <<"raw">>                    \* img data sent by the client
NoTime == 0                            \* createdAt not assigned yet
BogusId == 0                           \* an id no post ever had
TextLens == {0, 1, maxLength, maxLength + 1}   \* text.length; 0: '' or absent

Following(u) == IF u = "u1" THEN {"u2", "u3"} ELSE IF u = "u2" THEN {"u1", "u2"} ELSE {}
Username(u) == <<"name", u>>

VARIABLES
  posts,      \* Post collection: id -> document
  blobs,      \* Blob Store: public ids of the stored images
  nextId,     \* next fresh post _id
  nextBlob,   \* next fresh Blob Store public id
  nextReply,  \* next fresh reply _id
  now,        \* clock
  req,        \* handler -> the request it runs (locals, position, response)
  resp,       \* the latest response sent: the request and its status and body
  started,    \* number of requests started
  acked,      \* the replies (post id, reply id) whose request answered 200
  ackLikes    \* post id -> users whose latest answered toggle was 'liked'

vars == <<posts, blobs, nextId, nextBlob, nextReply, now, req, resp, started, acked, ackLikes>>

\* ------------------------------------------------------------ pure helpers
Last(s) == s[Len(s)]

SeqToSet(s) == {s[i] : i \in 1..Len(s)}

RECURSIVE Filter(_, _)
Filter(s, x) ==
  IF s = <<>> THEN <<>>
  ELSE IF Head(s) = x THEN Filter(Tail(s), x) ELSE <<Head(s)>> \o Filter(Tail(s), x)

\* uploadedResponse.secure_url: .../upload/<public_id>.<ext>
SecureUrl(b) == <<"res.cloudinary.com", "upload", <<b, "jpg">>>>

\* post.img.split('/').pop().split('.')[0]
ImgId(img) == Last(img)[1]

IdleReq ==
  [op |-> "none", pc |-> "idle", caller |-> NoUser, id |-> BogusId, postedBy |-> NoUser,
   text |-> 0, img |-> NoImg, doc |-> <<>>, status |-> 0, body |-> <<>>]

\* a handler is free when it runs no request
Free(p) == req[p].pc = "idle"

\* res.status(s).json(b), which ends the request with locals r
Answer(r, s, b) == [r EXCEPT !.pc = "done", !.status = s, !.body = b]

\* the handler p has run up to its next await, or to its response, with locals r
Settle(p, r) ==
  IF r.pc = "done"
  THEN req' = [req EXCEPT ![p] = IdleReq] /\ resp' = r
  ELSE req' = [req EXCEPT ![p] = r] /\ UNCHANGED resp

\* the ids a request may name: every id a post ever had, and one none had
KnownIds == {BogusId} \cup (1 .. (nextId - 1))

\* Post.findById(id): the document or null
FindById(i) == IF i \in DOMAIN posts THEN <<posts[i]>> ELSE <<>>

\* Date.now() of a write: the clock has not moved since the last write, or has
Ticks == {now, now + 1}

\* new Post({ postedBy, text, img }): schema defaults for the rest
NewPost(i, postedBy, text, img, t) ==
  [id |-> i, postedBy |-> postedBy, text |-> text, img |-> img,
   likes |-> <<>>, replies |-> <<>>, createdAt |-> t]

\* The database outlives the server: when it starts, u1 has one post with an image.
Init ==
  /\ posts = (1 :> NewPost(1, "u1", 1, SecureUrl(1), 1))
  /\ blobs = {1}
  /\ nextId = 2
  /\ nextBlob = 2
  /\ nextReply = 1
  /\ now = 1
  /\ req = [p \in Procs |-> IdleReq]
  /\ resp = IdleReq
  /\ started = 0
  /\ acked = {}
  /\ ackLikes = (1 :> {})

\* ------------------------------------------------------------- createPost
\* lines 8-10, up to the first await
StartCreate(p) ==
  /\ Free(p)
  /\ started < MaxRequests
  /\ \E caller \in Callers, postedBy \in AllIds \cup {NoUser}, text \in TextLens,
        img \in {NoImg, RawImg} :
       LET r == [IdleReq EXCEPT !.op = "createPost", !.caller = caller,
                                !.postedBy = postedBy, !.text = text, !.img = img]
       IN Settle(p, IF postedBy = NoUser \/ text = 0 THEN Answer(r, 400, <<>>)
                    ELSE [r EXCEPT !.pc = "c_user"])
  /\ started' = started + 1
  /\ UNCHANGED <<posts, blobs, nextId, nextBlob, nextReply, now, acked, ackLikes>>

CreateChecksNoAuth(r) ==
  IF r.postedBy \notin UserStore THEN Answer(r, 404, <<>>)
  ELSE IF r.text > maxLength THEN Answer(r, 400, <<>>)
  ELSE IF r.img # NoImg THEN [r EXCEPT !.pc = "c_upload"]
  ELSE [r EXCEPT !.pc = "c_save"]

CreateChecksUploadFirst(r) ==
  IF r.postedBy \notin UserStore THEN Answer(r, 404, <<>>)
  ELSE IF r.postedBy # r.caller THEN Answer(r, 401, <<>>)
  ELSE IF r.img # NoImg THEN [r EXCEPT !.pc = "c_upload"]
  ELSE IF r.text > maxLength THEN Answer(r, 400, <<>>)
  ELSE [r EXCEPT !.pc = "c_save"]

CreateChecksNoLength(r) ==
  IF r.postedBy \notin UserStore THEN Answer(r, 404, <<>>)
  ELSE IF r.postedBy # r.caller THEN Answer(r, 401, <<>>)
  ELSE IF r.img # NoImg THEN [r EXCEPT !.pc = "c_upload"]
  ELSE [r EXCEPT !.pc = "c_save"]

CreateChecksOffByOne(r) ==
  IF r.postedBy \notin UserStore THEN Answer(r, 404, <<>>)
  ELSE IF r.postedBy # r.caller THEN Answer(r, 401, <<>>)
  ELSE IF r.text >= maxLength THEN Answer(r, 400, <<>>)
  ELSE IF r.img # NoImg THEN [r EXCEPT !.pc = "c_upload"]
  ELSE [r EXCEPT !.pc = "c_save"]

\* the checks of lines 15-28 on the result of User.findById(postedBy)
CreateChecks(r) ==
  IF r.postedBy \notin UserStore THEN Answer(r, 404, <<>>)
  ELSE IF r.postedBy # r.caller THEN Answer(r, 401, <<>>)
  ELSE IF r.text > maxLength THEN Answer(r, 400, <<>>)
  ELSE IF r.img # NoImg THEN [r EXCEPT !.pc = "c_upload"]
  ELSE [r EXCEPT !.pc = "c_save"]

\* await User.findById(postedBy) resolves or throws
CreateFindUser(p) ==
  /\ req[p].pc = "c_user"
  /\ \E ok \in BOOLEAN :
       Settle(p, IF ok THEN CreateChecks(req[p]) ELSE Answer(req[p], 500, <<>>))
  /\ UNCHANGED <<posts, blobs, nextId, nextBlob, nextReply, now, started, acked, ackLikes>>

CreateUploadSwallow(p) ==
  /\ req[p].pc = "c_upload"
  /\ \E ok \in BOOLEAN :
       IF ok
       THEN /\ blobs' = blobs \cup {nextBlob}
            /\ nextBlob' = nextBlob + 1
            /\ Settle(p, [req[p] EXCEPT !.pc = "c_save", !.img = SecureUrl(nextBlob)])
       ELSE /\ Settle(p, [req[p] EXCEPT !.pc = "c_save"])
            /\ UNCHANGED <<blobs, nextBlob>>
  /\ UNCHANGED <<posts, nextId, nextReply, now, started, acked, ackLikes>>

\* await cloudinary.uploader.upload(img) resolves or throws
CreateUpload(p) ==
  /\ req[p].pc = "c_upload"
  /\ \E ok \in BOOLEAN :
       IF ok
       THEN /\ blobs' = blobs \cup {nextBlob}
            /\ nextBlob' = nextBlob + 1
            /\ Settle(p, [req[p] EXCEPT !.pc = "c_save", !.img = SecureUrl(nextBlob)])
       ELSE /\ Settle(p, Answer(req[p], 500, <<>>))
            /\ UNCHANGED <<blobs, nextBlob>>
  /\ UNCHANGED <<posts, nextId, nextReply, now, started, acked, ackLikes>>

\* await newPost.save() resolves or throws
CreateSave(p) ==
  /\ req[p].pc = "c_save"
  /\ \E ok \in BOOLEAN :
       IF ok
       THEN \E t \in Ticks :
              LET newPost == NewPost(nextId, req[p].postedBy, req[p].text, req[p].img, t)
              IN /\ posts' = posts @@ (nextId :> newPost)
                 /\ ackLikes' = ackLikes @@ (nextId :> {})
                 /\ nextId' = nextId + 1
                 /\ now' = t
                 /\ Settle(p, Answer(req[p], 201, <<newPost>>))
       ELSE /\ Settle(p, Answer(req[p], 500, <<>>))
            /\ UNCHANGED <<posts, ackLikes, nextId, now>>
  /\ UNCHANGED <<blobs, nextBlob, nextReply, started, acked>>

\* ---------------------------------------------------------------- getPost
StartGet(p) ==
  /\ Free(p)
  /\ started < MaxRequests
  /\ \E i \in KnownIds :
       Settle(p, [IdleReq EXCEPT !.op = "getPost", !.id = i, !.pc = "g_find"])
  /\ started' = started + 1
  /\ UNCHANGED <<posts, blobs, nextId, nextBlob, nextReply, now, acked, ackLikes>>

GetChecksSilent(r, found) ==
  IF found = <<>> THEN [r EXCEPT !.pc = "g_sent"] ELSE Answer(r, 200, found)

\* lines 56-59 on the result of Post.findById(id)
GetChecks(r, found) ==
  IF found = <<>> THEN Answer(r, 404, <<>>) ELSE Answer(r, 200, found)

\* await Post.findById(id) resolves or throws
GetFind(p) ==
  /\ req[p].pc = "g_find"
  /\ \E ok \in BOOLEAN :
       Settle(p, IF ok THEN GetChecks(req[p], FindById(req[p].id))
                 ELSE Answer(req[p], 500, <<>>))
  /\ UNCHANGED <<posts, blobs, nextId, nextBlob, nextReply, now, started, acked, ackLikes>>

\* ------------------------------------------------------------- deletePost
StartDelete(p) ==
  /\ Free(p)
  /\ started < MaxRequests
  /\ \E caller \in Callers, i \in KnownIds :
       Settle(p, [IdleReq EXCEPT !.op = "deletePost", !.caller = caller, !.id = i,
                                 !.pc = "d_find"])
  /\ started' = started + 1
  /\ UNCHANGED <<posts, blobs, nextId, nextBlob, nextReply, now, acked, ackLikes>>

DeleteChecksImgFirst(r, found) ==
  IF found = <<>> THEN Answer(r, 404, <<>>)
  ELSE IF found[1].img # NoImg THEN [r EXCEPT !.pc = "d_destroy", !.doc = found]
  ELSE IF found[1].postedBy # r.caller THEN Answer(r, 401, <<>>)
  ELSE [r EXCEPT !.pc = "d_delete", !.doc = found]

DeleteChecksNoOwner(r, found) ==
  IF found = <<>> THEN Answer(r, 404, <<>>)
  ELSE IF found[1].img # NoImg THEN [r EXCEPT !.pc = "d_destroy", !.doc = found]
  ELSE [r EXCEPT !.pc = "d_delete", !.doc = found]

\* the checks of lines 75-82 on the result of Post.findById(id)
DeleteChecks(r, found) ==
  IF found = <<>> THEN Answer(r, 404, <<>>)
  ELSE IF found[1].postedBy # r.caller THEN Answer(r, 401, <<>>)
  ELSE IF found[1].img # NoImg THEN [r EXCEPT !.pc = "d_destroy", !.doc = found]
  ELSE [r EXCEPT !.pc = "d_delete", !.doc = found]

\* await Post.findById(id) resolves or throws
DeleteFind(p) ==
  /\ req[p].pc = "d_find"
  /\ \E ok \in BOOLEAN :
       Settle(p, IF ok THEN DeleteChecks(req[p], FindById(req[p].id))
                 ELSE Answer(req[p], 500, <<>>))
  /\ UNCHANGED <<posts, blobs, nextId, nextBlob, nextReply, now, started, acked, ackLikes>>

DeleteDestroyBestEffort(p) ==
  /\ req[p].pc = "d_destroy"
  /\ \E ok \in BOOLEAN :
       /\ blobs' = IF ok THEN blobs \ {ImgId(req[p].doc[1].img)} ELSE blobs
       /\ Settle(p, [req[p] EXCEPT !.pc = "d_delete"])
  /\ UNCHANGED <<posts, nextId, nextBlob, nextReply, now, started, acked, ackLikes>>

\* await cloudinary.uploader.destroy(imgId) resolves or throws
DeleteDestroy(p) ==
  /\ req[p].pc = "d_destroy"
  /\ \E ok \in BOOLEAN :
       IF ok
       THEN /\ blobs' = blobs \ {ImgId(req[p].doc[1].img)}
            /\ Settle(p, [req[p] EXCEPT !.pc = "d_delete"])
       ELSE /\ Settle(p, Answer(req[p], 500, <<>>))
            /\ UNCHANGED blobs
  /\ UNCHANGED <<posts, nextId, nextBlob, nextReply, now, started, acked, ackLikes>>

\* Post.findByIdAndDelete(id)
Remove(ps, i) == [j \in DOMAIN ps \ {i} |-> ps[j]]

\* await Post.findByIdAndDelete(id) resolves or throws
DeleteRemove(p) ==
  /\ req[p].pc = "d_delete"
  /\ \E ok \in BOOLEAN :
       IF ok
       THEN /\ posts' = Remove(posts, req[p].id)
            /\ ackLikes' = Remove(ackLikes, req[p].id)
            /\ Settle(p, Answer(req[p], 200, <<>>))
       ELSE /\ Settle(p, Answer(req[p], 500, <<>>))
            /\ UNCHANGED <<posts, ackLikes>>
  /\ UNCHANGED <<blobs, nextId, nextBlob, nextReply, now, started, acked>>

\* --------------------------------------------------------- likeUnlikePost
StartLikeN(p, n) ==
  /\ Free(p)
  /\ started < n
  /\ \E caller \in Callers, i \in KnownIds :
       Settle(p, [IdleReq EXCEPT !.op = "likeUnlikePost", !.caller = caller, !.id = i,
                                 !.pc = "l_find"])
  /\ started' = started + 1
  /\ UNCHANGED <<posts, blobs, nextId, nextBlob, nextReply, now, acked, ackLikes>>

StartLike(p) == StartLikeN(p, MaxRequests)

IncludesNever(likes, u) == FALSE

\* post.likes.includes(userId)
Includes(likes, u) == \E k \in 1..Len(likes) : likes[k] = u

\* lines 108-122 on the result of Post.findById(postId)
LikeChecks(r, found) ==
  IF found = <<>> THEN Answer(r, 404, <<>>)
  ELSE IF Includes(found[1].likes, r.caller) THEN [r EXCEPT !.pc = "l_pull", !.doc = found]
  ELSE [r EXCEPT !.pc = "l_save",
                 !.doc = <<[found[1] EXCEPT !.likes = Append(@, r.caller)]>>]

\* await Post.findById(postId) resolves or throws
LikeFind(p) ==
  /\ req[p].pc = "l_find"
  /\ \E ok \in BOOLEAN :
       Settle(p, IF ok THEN LikeChecks(req[p], FindById(req[p].id))
                 ELSE Answer(req[p], 500, <<>>))
  /\ UNCHANGED <<posts, blobs, nextId, nextBlob, nextReply, now, started, acked, ackLikes>>

PullLikeNothing(ps, i, u) == ps

\* Post.updateOne({ _id: postId }, { $pull: { likes: userId } })
PullLike(ps, i, u) ==
  IF i \in DOMAIN ps THEN [ps EXCEPT ![i].likes = Filter(@, u)] ELSE ps

\* await Post.updateOne(...) resolves or throws
LikePull(p) ==
  /\ req[p].pc = "l_pull"
  /\ \E ok \in BOOLEAN :
       IF ok
       THEN /\ posts' = PullLike(posts, req[p].id, req[p].caller)
            /\ ackLikes' = IF req[p].id \in DOMAIN ackLikes
                           THEN [ackLikes EXCEPT ![req[p].id] = @ \ {req[p].caller}]
                           ELSE ackLikes
            /\ Settle(p, Answer(req[p], 200, <<"Post unliked successfully">>))
       ELSE /\ Settle(p, Answer(req[p], 500, <<>>))
            /\ UNCHANGED <<posts, ackLikes>>
  /\ UNCHANGED <<blobs, nextId, nextBlob, nextReply, now, started, acked>>

SaveLikesWhole(stored, doc) == [stored EXCEPT !.likes = doc.likes]

SaveLikesReset(stored, doc) == [stored EXCEPT !.likes = <<Last(doc.likes)>>]

\* post.save() after post.likes.push(userId): the pushed element is sent as a
\* $push on the stored array
SaveLikes(stored, doc) == [stored EXCEPT !.likes = Append(@, Last(doc.likes))]

LikeSaveUpsert(p) ==
  /\ req[p].pc = "l_save"
  /\ \E ok \in BOOLEAN :
       IF ok
       THEN /\ posts' = (req[p].id :> req[p].doc[1]) @@ posts
            /\ ackLikes' = (req[p].id :> {req[p].caller}) @@ ackLikes
            /\ Settle(p, Answer(req[p], 200, <<"Post liked successfully">>))
       ELSE /\ Settle(p, Answer(req[p], 500, <<>>))
            /\ UNCHANGED <<posts, ackLikes>>
  /\ UNCHANGED <<blobs, nextId, nextBlob, nextReply, now, started, acked>>

\* await post.save() resolves or throws; a document deleted meanwhile makes it throw
LikeSave(p) ==
  /\ req[p].pc = "l_save"
  /\ \E ok \in BOOLEAN :
       IF ok /\ req[p].id \in DOMAIN posts
       THEN /\ posts' = [posts EXCEPT ![req[p].id] = SaveLikes(@, req[p].doc[1])]
            /\ ackLikes' = [ackLikes EXCEPT ![req[p].id] = @ \cup {req[p].caller}]
            /\ Settle(p, Answer(req[p], 200, <<"Post liked successfully">>))
       ELSE /\ Settle(p, Answer(req[p], 500, <<>>))
            /\ UNCHANGED <<posts, ackLikes>>
  /\ UNCHANGED <<blobs, nextId, nextBlob, nextReply, now, started, acked>>

\* ------------------------------------------------------------ replyToPost
\* (a, b) => b.createdAt - a.createdAt; a missing createdAt gives NaN, which
\* Array.prototype.sort reads as +0
Cmp(a, b) ==
  IF a.createdAt = NoTime \/ b.createdAt = NoTime THEN 0 ELSE b.createdAt - a.createdAt

Reverse(a) == [k \in 1..Len(a) |-> a[Len(a) + 1 - k]]

\* the run Array.prototype.sort finds at the front of the array: the first two
\* elements fix its direction, it ends where the direction breaks
RunDescending(a) == Cmp(a[2], a[1]) < 0

RunContinues(a, idx) ==
  IF RunDescending(a) THEN Cmp(a[idx], a[idx - 1]) < 0 ELSE Cmp(a[idx], a[idx - 1]) >= 0

RunLength(a) ==
  CHOOSE k \in 2..Len(a) :
    /\ \A idx \in 3..k : RunContinues(a, idx)
    /\ k = Len(a) \/ ~RunContinues(a, k + 1)

\* binary search of the place of pivot in a[left..right-1] (0-based, as the engine)
RECURSIVE BinPos(_, _, _, _)
BinPos(a, pivot, left, right) ==
  IF left >= right THEN left
  ELSE LET mid == left + ((right - left) \div 2)
       IN IF Cmp(pivot, a[mid + 1]) < 0 THEN BinPos(a, pivot, left, mid)
          ELSE BinPos(a, pivot, mid + 1, right)

\* binary insertion of a[start..] (0-based) into the sorted front a[0..start-1]
RECURSIVE BinaryInsertionSort(_, _)
BinaryInsertionSort(a, start) ==
  IF start >= Len(a) THEN a
  ELSE LET pivot == a[start + 1]
           pos == BinPos(a, pivot, 0, start)
           moved == SubSeq(a, 1, pos) \o <<pivot>> \o SubSeq(a, pos + 1, start)
                      \o SubSeq(a, start + 2, Len(a))
       IN BinaryInsertionSort(moved, start + 1)

\* post.replies.sort(cmp): the engine's sort of a short array (one run, then
\* binary insertion of the rest)
ArraySort(a) ==
  IF Len(a) < 2 THEN a
  ELSE LET k == RunLength(a)
           run == IF RunDescending(a)
                  THEN Reverse(SubSeq(a, 1, k)) \o SubSeq(a, k + 1, Len(a))
                  ELSE a
       IN BinaryInsertionSort(run, k)

\* const reply = { userId, text, userProfilePic, username }
Reply(caller, text) ==
  [userId |-> caller, text |-> text, userProfilePic |-> <<"pic", caller>>,
   username |-> Username(caller)]

\* the subdocument the replies array makes of reply: _id now, createdAt on save
ReplyDoc(rid, caller, text) ==
  [rid |-> rid, userId |-> caller, text |-> text, userProfilePic |-> <<"pic", caller>>,
   username |-> Username(caller), createdAt |-> NoTime]

Push(replies, r) == replies \o <<r>>

\* post.replies.unshift(reply)
Unshift(replies, r) == <<r>> \o replies

\* lines 149-160 on the result of Post.findById(postId)
ReplyChecks(r, found, rid) ==
  IF found = <<>> THEN Answer(r, 404, <<>>)
  ELSE [r EXCEPT !.pc = "r_save",
                 !.doc = <<[found[1] EXCEPT !.replies =
                              ArraySort(Unshift(@, ReplyDoc(rid, r.caller, r.text)))]>>]

\* lines 135-143, up to the first await
StartReplyN(p, n) ==
  /\ Free(p)
  /\ started < n
  /\ \E caller \in Callers, i \in KnownIds, text \in {0, 1} :
       LET r == [IdleReq EXCEPT !.op = "replyToPost", !.caller = caller, !.id = i,
                                !.text = text]
       IN Settle(p, IF text = 0 THEN Answer(r, 400, <<>>) ELSE [r EXCEPT !.pc = "r_find"])
  /\ started' = started + 1
  /\ UNCHANGED <<posts, blobs, nextId, nextBlob, nextReply, now, acked, ackLikes>>

StartReply(p) == StartReplyN(p, MaxRequests)

\* await Post.findById(postId) resolves or throws
ReplyFind(p) ==
  /\ req[p].pc = "r_find"
  /\ \E ok \in BOOLEAN :
       IF ok
       THEN /\ Settle(p, ReplyChecks(req[p], FindById(req[p].id), nextReply))
            /\ nextReply' = IF FindById(req[p].id) = <<>> THEN nextReply ELSE nextReply + 1
       ELSE /\ Settle(p, Answer(req[p], 500, <<>>))
            /\ UNCHANGED nextReply
  /\ UNCHANGED <<posts, blobs, nextId, nextBlob, now, started, acked, ackLikes>>

\* the timestamps of the subdocuments that are new at this save
Stamp(replies, t) ==
  [k \in 1..Len(replies) |->
     IF replies[k].createdAt = NoTime THEN [replies[k] EXCEPT !.createdAt = t]
     ELSE replies[k]]

SaveRepliesReowned(stored, doc, t) ==
  [stored EXCEPT !.replies = Stamp(doc.replies, t), !.postedBy = doc.replies[1].userId]

\* post.save() after unshift and sort: the whole replies array is sent as a $set
SaveReplies(stored, doc, t) == [stored EXCEPT !.replies = Stamp(doc.replies, t)]

\* the reply this request added to its copy of the post
OwnReply(doc) == CHOOSE x \in SeqToSet(doc.replies) : x.createdAt = NoTime

\* await post.save() resolves or throws; a document deleted meanwhile makes it throw
ReplySave(p) ==
  /\ req[p].pc = "r_save"
  /\ \E ok \in BOOLEAN :
       IF ok /\ req[p].id \in DOMAIN posts
       THEN \E t \in Ticks :
              /\ posts' = [posts EXCEPT ![req[p].id] = SaveReplies(@, req[p].doc[1], t)]
              /\ now' = t
              /\ acked' = acked \cup {[post |-> req[p].id, rid |-> OwnReply(req[p].doc[1]).rid]}
              /\ Settle(p, Answer(req[p], 200, <<Reply(req[p].caller, req[p].text)>>))
       ELSE /\ Settle(p, Answer(req[p], 500, <<>>))
            /\ UNCHANGED <<posts, now, acked>>
  /\ UNCHANGED <<blobs, nextId, nextBlob, nextReply, started, ackLikes>>

\* ----------------------------------------------------- getFeedPosts, getUserPosts
\* s lists the documents of D, each once, by createdAt descending
IsListing(s, D) ==
  /\ Len(s) = Cardinality(D)
  /\ SeqToSet(s) = D
  /\ \A k \in 1..(Len(s) - 1) : s[k].createdAt >= s[k + 1].createdAt

\* Post.find(filter).sort({ createdAt: -1 }): the possible results
RECURSIVE Listings(_)
Listings(D) ==
  IF D = {} THEN {<<>>}
  ELSE {<<d>> \o s : d \in {x \in D : \A y \in D : x.createdAt >= y.createdAt},
                     s \in UNION {Listings(D \ {x}) : x \in D}} \cap
       {s \in UNION {{<<d>> \o t : t \in Listings(D \ {d})} : d \in D} : IsListing(s, D)}

PostsOfAll(owners) == {posts[i] : i \in DOMAIN posts}

\* Post.find({ postedBy: { $in: following } })
PostsOf(owners) == {posts[i] : i \in {j \in DOMAIN posts : posts[j].postedBy \in owners}}

StartFeed(p) ==
  /\ Free(p)
  /\ started < MaxRequests
  /\ \E caller \in AllIds :
       Settle(p, [IdleReq EXCEPT !.op = "getFeedPosts", !.caller = caller, !.pc = "f_user"])
  /\ started' = started + 1
  /\ UNCHANGED <<posts, blobs, nextId, nextBlob, nextReply, now, acked, ackLikes>>

\* line 177 on the result of User.findById(userId)
FeedChecks(r) ==
  IF r.caller \notin UserStore THEN Answer(r, 404, <<>>) ELSE [r EXCEPT !.pc = "f_find"]

\* await User.findById(userId) resolves or throws
FeedUser(p) ==
  /\ req[p].pc = "f_user"
  /\ \E ok \in BOOLEAN :
       Settle(p, IF ok THEN FeedChecks(req[p]) ELSE Answer(req[p], 500, <<>>))
  /\ UNCHANGED <<posts, blobs, nextId, nextBlob, nextReply, now, started, acked, ackLikes>>

\* await Post.find(...).sort(...) resolves or throws
FeedFind(p) ==
  /\ req[p].pc = "f_find"
  /\ \E ok \in BOOLEAN :
       IF ok
       THEN \E s \in Listings(PostsOf(Following(req[p].caller))) : Settle(p, Answer(req[p], 200, s))
       ELSE Settle(p, Answer(req[p], 500, <<>>))
  /\ UNCHANGED <<posts, blobs, nextId, nextBlob, nextReply, now, started, acked, ackLikes>>

\* req.params.username: postedBy holds the identity it resolves to
StartUserPosts(p) ==
  /\ Free(p)
  /\ started < MaxRequests
  /\ \E u \in AllIds :
       Settle(p, [IdleReq EXCEPT !.op = "getUserPosts", !.postedBy = u, !.pc = "u_user"])
  /\ started' = started + 1
  /\ UNCHANGED <<posts, blobs, nextId, nextBlob, nextReply, now, acked, ackLikes>>

\* lines 197-199 on the result of User.findOne({ username })
UserPostsChecks(r) ==
  IF r.postedBy \notin UserStore THEN Answer(r, 404, <<>>) ELSE [r EXCEPT !.pc = "u_find"]

\* await User.findOne({ username }) resolves or throws
UserPostsUser(p) ==
  /\ req[p].pc = "u_user"
  /\ \E ok \in BOOLEAN :
       Settle(p, IF ok THEN UserPostsChecks(req[p]) ELSE Answer(req[p], 500, <<>>))
  /\ UNCHANGED <<posts, blobs, nextId, nextBlob, nextReply, now, started, acked, ackLikes>>

\* await Post.find({ postedBy: user._id }).sort(...) resolves or throws
UserPostsFind(p) ==
  /\ req[p].pc = "u_find"
  /\ \E ok \in BOOLEAN :
       IF ok
       THEN \E s \in Listings(PostsOf({req[p].postedBy})) : Settle(p, Answer(req[p], 200, s))
       ELSE Settle(p, Answer(req[p], 500, <<>>))
  /\ UNCHANGED <<posts, blobs, nextId, nextBlob, nextReply, now, started, acked, ackLikes>>

\* ---------------------------------------------------------- specification
Next ==
  \E p \in Procs :
    \/ StartCreate(p) \/ CreateFindUser(p) \/ CreateUpload(p) \/ CreateSave(p)
    \/ StartGet(p) \/ GetFind(p)
    \/ StartDelete(p) \/ DeleteFind(p) \/ DeleteDestroy(p) \/ DeleteRemove(p)
    \/ StartLike(p) \/ LikeFind(p) \/ LikePull(p) \/ LikeSave(p)
    \/ StartReply(p) \/ ReplyFind(p) \/ ReplySave(p)
    \/ StartFeed(p) \/ FeedUser(p) \/ FeedFind(p)
    \/ StartUserPosts(p) \/ UserPostsUser(p) \/ UserPostsFind(p)

Spec == Init /\ [][Next]_vars

\* the replies and likes of the posts that exist, with a budget of their own
NextMutations ==
  \E p \in Procs :
    \/ StartLikeN(p, MaxMutations) \/ LikeFind(p) \/ LikePull(p) \/ LikeSave(p)
    \/ StartReplyN(p, MaxMutations) \/ ReplyFind(p) \/ ReplySave(p)

SpecMutations == Init /\ [][NextMutations]_vars

\* ------------------------------------------------------------------ claims
Likes(i) == SeqToSet(posts[i].likes)

\* C1: no user identity appears more than once in the likes of a post, under
\* any interleaving of likeUnlikePost requests.
C1_NoDuplicateLikes ==
  \A i \in DOMAIN posts :
    \A j, k \in 1..Len(posts[i].likes) : posts[i].likes[j] = posts[i].likes[k] => j = k

\* C2: no like is lost or resurrected: the users in the likes of a post are
\* exactly those whose latest answered toggle on it said 'liked', whatever other
\* users' toggles ran in between.
C2_NoLostLike == \A i \in DOMAIN posts : Likes(i) = ackLikes[i]

\* two users liked the same post, and the one answered last had read the post
\* before the other's like was stored
C2_Witness ==
  /\ resp.op = "likeUnlikePost"
  /\ resp.status = 200
  /\ resp.body = <<"Post liked successfully">>
  /\ resp.doc[1].likes = <<resp.caller>>
  /\ resp.id \in DOMAIN posts
  /\ Likes(resp.id) = {"u1", "u2"}
  /\ ackLikes[resp.id] = {"u1", "u2"}

C4_RepliesSorted ==
  \A i \in DOMAIN posts :
    LET rs == posts[i].replies
    IN /\ \A k \in 1..Len(rs) : rs[k].createdAt # NoTime
       /\ \A k \in 1..(Len(rs) - 1) : rs[k].createdAt >= rs[k + 1].createdAt

\* three replies with creation times t1 < t2 < t3 are stored as [t3, t2, t1]
C4_Witness ==
  \E i \in DOMAIN posts :
    LET rs == posts[i].replies
    IN /\ Len(rs) = 3
       /\ rs[1].createdAt > rs[2].createdAt
       /\ rs[2].createdAt > rs[3].createdAt
       /\ resp.op = "replyToPost"
       /\ resp.status = 200

\* this step sends a response (resp' is it): a running request ends, or a
\* request is answered by its first segment
Answered ==
  \/ \E p \in Procs : req[p].pc # "idle" /\ req'[p].pc = "idle"
  \/ started' = started + 1 /\ req' = req

\* C5: deletePost by a caller who is not the post's owner answers 401 (500 when
\* the lookup itself throws), issues no Blob Store delete and leaves the post and
\* its media as they were.
C5_NonOwnerDeleteStep ==
  \A p \in Procs :
    ( /\ req[p].pc = "d_find"
      /\ req[p].id \in DOMAIN posts
      /\ posts[req[p].id].postedBy # req[p].caller
      /\ req'[p] # req[p] )
    => /\ req'[p] = IdleReq
       /\ resp'.op = "deletePost"
       /\ resp'.status \in {401, 500}
       /\ posts' = posts
       /\ blobs' = blobs

C5_NonOwnerDelete == [][C5_NonOwnerDeleteStep]_vars

\* a non-owner was refused, and the post and its image are still stored
C5_Witness ==
  /\ resp.op = "deletePost"
  /\ resp.status = 401
  /\ resp.id \in DOMAIN posts
  /\ posts[resp.id].postedBy # resp.caller
  /\ posts[resp.id].img # NoImg
  /\ ImgId(posts[resp.id].img) \in blobs

\* C6: a post leaves the store only in the last step of a deletePost request
\* whose caller is the post's owner; no step of any other operation removes one.
C6_RemovedByOwnerStep ==
  \A i \in DOMAIN posts :
    i \notin DOMAIN posts' =>
      \E p \in Procs :
        /\ req[p].op = "deletePost"
        /\ req[p].pc = "d_delete"
        /\ req[p].id = i
        /\ req[p].caller = posts[i].postedBy
        /\ req'[p] = IdleReq
        /\ resp'.op = "deletePost"
        /\ resp'.status = 200

C6_RemovedByOwner == [][C6_RemovedByOwnerStep]_vars

\* the owner deleted a post
C6_Witness ==
  /\ resp.op = "deletePost"
  /\ resp.status = 200
  /\ resp.caller = resp.doc[1].postedBy
  /\ resp.id \notin DOMAIN posts

\* C7: createPost for another existing user answers 401 (500 when the lookup
\* throws), stores no post and uploads nothing; and every post that enters the
\* store has as postedBy the caller of the request that stores it.
C7_CreateAsOtherStep ==
  /\ \A p \in Procs :
       ( /\ req[p].pc = "c_user"
         /\ req[p].postedBy \in UserStore
         /\ req[p].postedBy # req[p].caller
         /\ req'[p] # req[p] )
       => /\ req'[p] = IdleReq
          /\ resp'.op = "createPost"
          /\ resp'.status \in {401, 500}
          /\ posts' = posts
          /\ blobs' = blobs
  /\ \A i \in DOMAIN posts' \ DOMAIN posts :
       \E p \in Procs :
         /\ req[p].op = "createPost"
         /\ req[p].pc = "c_save"
         /\ req'[p] = IdleReq
         /\ posts'[i].postedBy = req[p].caller

C7_CreateAsOther == [][C7_CreateAsOtherStep]_vars

\* a request with an image to post as another user was refused, and nothing was
\* uploaded or stored
C7_Witness ==
  /\ resp.op = "createPost"
  /\ resp.status = 401
  /\ resp.postedBy \in UserStore
  /\ resp.postedBy # resp.caller
  /\ resp.text > 0
  /\ resp.img = RawImg
  /\ nextBlob = 2
  /\ DOMAIN posts = {1}

\* C8 as stated: createPost with text longer than 500 always answers 400 (500
\* when a collaborator throws) and stores nothing.
C8_LongTextAlways400 ==
  [][(Answered /\ resp'.op = "createPost" /\ resp'.text > maxLength)
       => (resp'.status \in {400, 500} /\ posts' = posts /\ blobs' = blobs)]_vars

\* the statuses createPost may answer to a request with text longer than 500
LongTextStatus(r) ==
  IF r.postedBy = NoUser THEN {400}
  ELSE IF r.postedBy \notin UserStore THEN {404, 500}
  ELSE IF r.postedBy # r.caller THEN {401, 500}
  ELSE {400, 500}

\* C8 (amended): createPost with text longer than 500 always fails, stores no
\* post and never reaches the upload; it answers 400 when postedBy is absent or
\* is the caller's own account, 404 when postedBy is no user, 401 when postedBy
\* is another user (500 when the user lookup throws).
C8_LongTextStep ==
  /\ (Answered /\ resp'.op = "createPost" /\ resp'.text > maxLength)
       => /\ resp'.status \in LongTextStatus(resp')
          /\ posts' = posts
          /\ blobs' = blobs
  /\ \A p \in Procs :
       (req'[p].op = "createPost" /\ req'[p].text > maxLength)
         => (req'[p].pc = "c_user" /\ req'[p].img \in {NoImg, RawImg})

C8_LongTextFails == [][C8_LongTextStep]_vars

\* a request of the caller's own, with an image and text of 501, was answered
\* 400 with nothing uploaded or stored
C8_Witness ==
  /\ resp.op = "createPost"
  /\ resp.text = maxLength + 1
  /\ resp.postedBy = resp.caller
  /\ resp.img = RawImg
  /\ resp.status = 400
  /\ nextBlob = 2
  /\ DOMAIN posts = {1}

\* C9: every stored post has 1 <= text.length <= 500.
C9_TextInRange == \A i \in DOMAIN posts : 1 <= posts[i].text /\ posts[i].text <= maxLength

\* a post created with text of 500 is stored and has since been liked
C9_Witness ==
  \E i \in DOMAIN posts :
    /\ i >= 2
    /\ posts[i].text = maxLength
    /\ posts[i].likes # <<>>

ValidCreate(r) ==
  /\ r.op = "createPost"
  /\ r.caller = r.postedBy
  /\ r.postedBy \in UserStore
  /\ 1 <= r.text
  /\ r.text <= maxLength

\* C10: a valid createPost request is never refused: each of its steps moves it
\* on or answers 500 (a collaborator threw) without a post stored; its last
\* step answers 201, adds exactly one post to the store and returns it, with
\* no likes, no replies, and the postedBy and text of the request.
C10_ValidCreateStep ==
  \A p \in Procs :
    (ValidCreate(req[p]) /\ req'[p] # req[p])
    => IF req'[p].pc = "idle"
       THEN /\ resp'.op = "createPost"
            /\ resp'.status \in {201, 500}
            /\ resp'.status = 500 => posts' = posts
            /\ resp'.status = 201 =>
                 /\ req[p].pc = "c_save"
                 /\ \E i \in DOMAIN posts' \ DOMAIN posts :
                      posts' = posts @@ (i :> resp'.body[1])
                 /\ resp'.body[1].likes = <<>>
                 /\ resp'.body[1].replies = <<>>
                 /\ resp'.body[1].postedBy = req[p].postedBy
                 /\ resp'.body[1].text = req[p].text
       ELSE /\ req'[p].pc \in {"c_upload", "c_save"}
            /\ posts' = posts

C10_ValidCreate == [][C10_ValidCreateStep]_vars

\* a valid request with an image and text of 500 was answered 201 with the post
C10_Witness ==
  /\ resp.op = "createPost"
  /\ resp.status = 201
  /\ resp.text = maxLength
  /\ resp.img # NoImg
  /\ resp.body[1].id \in DOMAIN posts
  /\ posts[resp.body[1].id] = resp.body[1]

\* one handler alone, so that a request ends before the next one starts: likes,
\* replies and reads of the posts that exist
NextSequential ==
  \/ StartLikeN("h1", MaxMutations) \/ LikeFind("h1") \/ LikePull("h1") \/ LikeSave("h1")
  \/ StartReplyN("h1", MaxMutations) \/ ReplyFind("h1") \/ ReplySave("h1")
  \/ StartGet("h1") \/ GetFind("h1")

SpecSequential == Init /\ [][NextSequential]_vars

Liked == <<"Post liked successfully">>
Unliked == <<"Post unliked successfully">>

\* the document before the push that made the in-memory copy doc
BeforePush(doc) == [doc EXCEPT !.likes = SubSeq(@, 1, Len(@) - 1)]

\* C11: with requests run one after the other, a likeUnlikePost by a user who
\* is not in the likes of a post is answered 'liked' (500 when the store throws),
\* and the same user's next likeUnlikePost on that post, with no request in
\* between, is answered 'unliked' and leaves the post, likes included, exactly
\* as it was before the like; no other post changes.
C11_RoundTripStep ==
  /\ \A p \in Procs :
       ( /\ req[p].pc = "l_find"
         /\ req[p].id \in DOMAIN posts
         /\ ~Includes(posts[req[p].id].likes, req[p].caller)
         /\ req'[p] # req[p] )
       => \/ req'[p].pc = "l_save"
          \/ req'[p].pc = "idle" /\ resp'.status = 500
  /\ \A p \in Procs :
       (req[p].pc = "l_save" /\ req'[p] # req[p])
       => /\ req'[p].pc = "idle"
          /\ \/ resp'.status = 200 /\ resp'.body = Liked
             \/ resp'.status = 500 /\ posts' = posts
  /\ ( /\ Answered
       /\ resp.op = "likeUnlikePost" /\ resp.status = 200 /\ resp.body = Liked
       /\ resp'.op = "likeUnlikePost" /\ resp'.caller = resp.caller /\ resp'.id = resp.id )
     => \/ /\ resp'.status = 200
           /\ resp'.body = Unliked
           /\ posts' = [posts EXCEPT ![resp.id] = BeforePush(resp.doc[1])]
        \/ resp'.status = 500 /\ posts' = posts

C11_RoundTrip == [][C11_RoundTripStep]_vars

\* u liked a post that another user already liked, then unliked it: the likes
\* are those of before
C11_Witness ==
  /\ resp.op = "likeUnlikePost"
  /\ resp.status = 200
  /\ resp.body = Unliked
  /\ Len(resp.doc[1].likes) = 2
  /\ resp.doc[1].likes[2] = resp.caller
  /\ resp.doc[1].likes[1] # resp.caller
  /\ posts[resp.id].likes = <<resp.doc[1].likes[1]>>

\* C12: a getFeedPosts that answers 200 returns each stored post whose postedBy
\* is in the caller's following set exactly once, no other post (the caller's
\* own posts only when the caller follows themselves), newest createdAt first;
\* a caller with no user record is answered 404 (500 when a lookup throws),
\* and 404 is answered to no one else.
C12_FeedStep ==
  \A p \in Procs :
    (req[p].op = "getFeedPosts" /\ req[p].pc # "idle" /\ req'[p].pc = "idle")
    => LET c == req[p].caller
           s == resp'.body
       IN  /\ resp'.op = "getFeedPosts" /\ resp'.caller = c
           /\ resp'.status \in {200, 404, 500}
           /\ (c \notin UserStore) => resp'.status \in {404, 500}
           /\ (resp'.status = 404) => c \notin UserStore
           /\ (resp'.status = 200) =>
                /\ \A k \in 1..Len(s) :
                     /\ s[k].postedBy \in Following(c)
                     /\ s[k].id \in DOMAIN posts /\ posts[s[k].id] = s[k]
                /\ \A i \in DOMAIN posts :
                     posts[i].postedBy \in Following(c) => \E k \in 1..Len(s) : s[k] = posts[i]
                /\ \A j, k \in 1..Len(s) : j < k =>
                     s[j].id # s[k].id /\ s[j].createdAt >= s[k].createdAt
           /\ posts' = posts

C12_Feed == [][C12_FeedStep]_vars

\* u2 follows u1 and u2: the feed holds the post of u1 and u2's own post
C12_Witness ==
  /\ resp.op = "getFeedPosts"
  /\ resp.status = 200
  /\ resp.caller = "u2"
  /\ Len(resp.body) = 2
  /\ {resp.body[1].postedBy, resp.body[2].postedBy} = {"u1", "u2"}

\* u1 does not follow u1: the stored post of u1 is not in u1's feed
C12_WitnessOwnExcluded ==
  /\ resp.op = "getFeedPosts"
  /\ resp.status = 200
  /\ resp.caller = "u1"
  /\ resp.body = <<>>
  /\ \E i \in DOMAIN posts : posts[i].postedBy = "u1"

\* C13: a deletePost answered 200 leaves its post absent, and an identifier
\* that was given out and is absent stays absent in every later step, so no
\* like or reply that read the post before the deletion and saves after it
\* brings the post back; a getPost that looks up an absent post answers 404
\* (500 when the lookup throws).
C13_DeletedStaysDeletedStep ==
  /\ (Answered /\ resp'.op = "deletePost" /\ resp'.status = 200)
       => resp'.id \notin DOMAIN posts'
  /\ \A i \in 1..(nextId - 1) : i \notin DOMAIN posts => i \notin DOMAIN posts'
  /\ \A p \in Procs :
       ( /\ req[p].pc \in {"l_save", "l_pull", "r_save"}
         /\ req[p].id \notin DOMAIN posts
         /\ req'[p] # req[p] )
       => posts' = posts /\ req'[p].pc = "idle"
  /\ \A p \in Procs :
       (req[p].pc = "g_find" /\ req[p].id \notin DOMAIN posts /\ req'[p] # req[p])
       => resp'.op = "getPost" /\ resp'.status \in {404, 500}

C13_DeletedStaysDeleted == [][C13_DeletedStaysDeletedStep]_vars

\* a like read the post, the owner's delete removed it, then the like's save
\* was attempted: the post is still absent
C13_Witness ==
  /\ resp.op = "likeUnlikePost"
  /\ resp.doc # <<>>
  /\ Len(resp.doc[1].likes) > 0
  /\ resp.status = 500
  /\ resp.id \in 1..(nextId - 1)
  /\ resp.id \notin DOMAIN posts

Uploaded == {SecureUrl(b) : b \in 1..(nextBlob - 1)}

\* C14: the upload of a createPost either succeeds, and the request goes on
\* to the insert with the returned url, or fails, and the request is answered
\* 500 with no post persisted; a post enters the store only from a createPost
\* that is past its upload, and its img is absent or the url of an upload
\* that succeeded.
C14_AllOrNothingStep ==
  /\ \A p \in Procs :
       (req[p].pc = "c_upload" /\ req'[p] # req[p])
       => /\ posts' = posts
          /\ \/ /\ blobs' = blobs \cup {nextBlob}
                /\ req'[p].pc = "c_save"
                /\ req'[p].img = SecureUrl(nextBlob)
             \/ /\ blobs' = blobs
                /\ req'[p].pc = "idle"
                /\ resp'.op = "createPost" /\ resp'.status = 500
  /\ \A p \in Procs : req'[p].pc = "c_save" => req'[p].img \in {NoImg} \cup Uploaded'
  /\ \A i \in DOMAIN posts' \ DOMAIN posts :
       /\ \E p \in Procs :
            /\ req[p].op = "createPost" /\ req[p].pc = "c_save" /\ req'[p].pc = "idle"
            /\ posts'[i].img = req[p].img
            /\ resp'.status = 201
       /\ posts'[i].img \in {NoImg} \cup Uploaded

C14_AllOrNothing == [][C14_AllOrNothingStep]_vars

\* a createPost with an image was answered 201: its post holds the url of the
\* upload done for it
C14_Witness ==
  /\ resp.op = "createPost"
  /\ resp.status = 201
  /\ resp.img # NoImg
  /\ \E i \in DOMAIN posts : i > 1 /\ posts[i].img = resp.img /\ resp.img = SecureUrl(nextBlob - 1)

\* C15: no step changes the postedBy of a post that is stored before and
\* after it, whatever likes and replies are in flight and however their reads
\* and saves interleave.
C15_PostedByFixedStep ==
  \A i \in DOMAIN posts \cap DOMAIN posts' : posts'[i].postedBy = posts[i].postedBy

C15_PostedByFixed == [][C15_PostedByFixedStep]_vars

\* a like and a reply of a user other than the owner are both stored
C15_Witness ==
  \E i \in DOMAIN posts :
    /\ posts[i].likes # <<>>
    /\ posts[i].replies # <<>>
    /\ posts[i].likes[1] # posts[i].postedBy
    /\ posts[i].replies[1].userId # posts[i].postedBy

\* the continuation of handler p after the call it awaits has settled
Resume(p) ==
  \/ CreateFindUser(p) \/ CreateUpload(p) \/ CreateSave(p)
  \/ GetFind(p)
  \/ DeleteFind(p) \/ DeleteDestroy(p) \/ DeleteRemove(p)
  \/ LikeFind(p) \/ LikePull(p) \/ LikeSave(p)
  \/ ReplyFind(p) \/ ReplySave(p)
  \/ FeedUser(p) \/ FeedFind(p)
  \/ UserPostsUser(p) \/ UserPostsFind(p)

\* every awaited call settles (resolves or throws), and the handler then runs on
SpecFair == Spec /\ \A p \in Procs : WF_vars(Resume(p))

Statuses == {200, 201, 400, 401, 404, 500}

\* a step of a request in flight either goes on to its next call, sending
\* nothing, or sends the one response of the request and ends it
C16_OneResponseStep ==
  /\ \A p \in Procs :
       (req[p].pc # "idle" /\ req'[p] # req[p])
       => \/ /\ req'[p].pc \notin {"idle", "done"}
             /\ req'[p].op = req[p].op
             /\ resp' = resp
          \/ /\ req'[p] = IdleReq
             /\ resp'.pc = "done"
             /\ resp'.op = req[p].op
             /\ resp'.status \in Statuses
  /\ \A p \in Procs :
       (req[p].pc = "idle" /\ req'[p] # req[p])
       => req'[p].pc \notin {"idle", "done"} /\ resp' = resp
  /\ (resp' # resp) => Answered /\ resp'.status \in Statuses

\* C16: every request in flight is eventually answered, whichever calls
\* resolve and whichever throw, and is answered once: each step of a request
\* sends nothing and goes on, or sends one response with a status of the
\* interface (200, 201, 400, 401, 404, 500) and ends the request.
C16_Completes ==
  /\ [][C16_OneResponseStep]_vars
  /\ \A p \in Procs : (req[p].pc # "idle") ~> (req[p].pc = "idle")

\* a deletePost got through its lookup and its owner check and was answered
\* 500 by a call that threw; nothing is in flight
C16_Witness ==
  /\ resp.op = "deletePost"
  /\ resp.status = 500
  /\ resp.doc # <<>>
  /\ \A p \in Procs : Free(p)

\* C17: with requests run one after the other, the answer of a likeUnlikePost
\* is 'liked' exactly when the caller was not in the likes of the post before
\* the call and is in them after it, 'unliked' exactly when the caller was in
\* them before and is not after; on an absent post the answer is 404 (500 when
\* the lookup throws) and nothing changes; 404 is answered for no stored post.
C17_ReportsActionStep ==
  \A p \in Procs :
    (req[p].op = "likeUnlikePost" /\ req[p].pc # "idle" /\ req'[p].pc = "idle")
    => LET u == req[p].caller
           i == req[p].id
           before == i \in DOMAIN posts /\ Includes(posts[i].likes, u)
           after == i \in DOMAIN posts' /\ Includes(posts'[i].likes, u)
       IN  /\ resp'.status \in {200, 404, 500}
           /\ (resp'.status = 200) => resp'.body \in {Liked, Unliked}
           /\ (resp'.status = 200 /\ resp'.body = Liked)
                <=> (i \in DOMAIN posts /\ ~before /\ after)
           /\ (resp'.status = 200 /\ resp'.body = Unliked) <=> (before /\ ~after)
           /\ (i \notin DOMAIN posts) => resp'.status \in {404, 500} /\ posts' = posts
           /\ (resp'.status = 404) => i \notin DOMAIN posts

C17_ReportsAction == [][C17_ReportsActionStep]_vars

\* the second of two users to like a post was answered 'liked' and is in its likes
C17_Witness ==
  /\ resp.op = "likeUnlikePost"
  /\ resp.status = 200
  /\ resp.body = Liked
  /\ resp.id \in DOMAIN posts
  /\ Len(posts[resp.id].likes) = 2
  /\ posts[resp.id].likes[2] = resp.caller
  /\ posts[resp.id].likes[1] # resp.caller

\* a like of a post that does not exist was answered 404
C17_WitnessAbsent ==
  /\ resp.op = "likeUnlikePost"
  /\ resp.status = 404
  /\ resp.id \notin DOMAIN posts

\* C18: the owner's deletePost of a post with an image goes through the blob
\* delete before the record removal: a record with an image is removed only
\* once its blob is gone; the blob delete itself leaves the post as stored,
\* and when it fails the request is answered 500 and never reaches the removal.
C18_BlobBeforeRecordStep ==
  /\ \A p \in Procs :
       (req[p].pc = "d_destroy" /\ req'[p] # req[p])
       => /\ posts' = posts
          /\ \/ /\ blobs' = blobs \ {ImgId(req[p].doc[1].img)}
                /\ req'[p].pc = "d_delete"
             \/ /\ blobs' = blobs
                /\ req'[p].pc = "idle"
                /\ resp'.op = "deletePost" /\ resp'.status = 500
  /\ \A p \in Procs :
       (req[p].pc = "d_find" /\ req'[p].pc = "d_delete") => req'[p].doc[1].img = NoImg
  /\ \A i \in DOMAIN posts \ DOMAIN posts' :
       posts[i].img # NoImg => ImgId(posts[i].img) \notin blobs

C18_BlobBeforeRecord == [][C18_BlobBeforeRecordStep]_vars

\* the owner's delete was answered 500 by the blob delete: blob and post are
\* both still there, the post with its img
C18_Witness ==
  /\ resp.op = "deletePost"
  /\ resp.status = 500
  /\ resp.doc # <<>>
  /\ resp.doc[1].img # NoImg
  /\ resp.doc[1].postedBy = resp.caller
  /\ ImgId(resp.doc[1].img) \in blobs
  /\ resp.id \in DOMAIN posts
  /\ posts[resp.id].img = resp.doc[1].img

\* all seven operations, one handler alone
NextOneAtATime ==
  \/ StartCreate("h1") \/ CreateFindUser("h1") \/ CreateUpload("h1") \/ CreateSave("h1")
  \/ StartGet("h1") \/ GetFind("h1")
  \/ StartDelete("h1") \/ DeleteFind("h1") \/ DeleteDestroy("h1") \/ DeleteRemove("h1")
  \/ StartLike("h1") \/ LikeFind("h1") \/ LikePull("h1") \/ LikeSave("h1")
  \/ StartReply("h1") \/ ReplyFind("h1") \/ ReplySave("h1")
  \/ StartFeed("h1") \/ FeedUser("h1") \/ FeedFind("h1")
  \/ StartUserPosts("h1") \/ UserPostsUser("h1") \/ UserPostsFind("h1")

SpecOneAtATime == Init /\ [][NextOneAtATime]_vars

StoreUnchanged == posts' = posts /\ blobs' = blobs

\* the first await of each handler: the request has written nothing yet
FirstLookups == {"c_user", "g_find", "d_find", "l_find", "r_find", "f_user", "u_user"}

Reads == {"getPost", "getFeedPosts", "getUserPosts"}

\* s with its k-th element taken out
Without(s, k) == SubSeq(s, 1, k - 1) \o SubSeq(s, k + 1, Len(s))

\* C19: with requests run one after the other, (1) a likeUnlikePost answered
\* 200 changes the membership of its caller in the likes of its post and
\* nothing else: the other users' likes, every other field of the post, the
\* other posts and the blobs are as before; (2) a replyToPost answered 200
\* adds one reply, with the caller as userId and the text of the request, to
\* the replies of its post and changes nothing else; (3) no step of getPost,
\* getFeedPosts or getUserPosts changes posts or blobs, and a request answered
\* 400, 401 or 404 is answered at its start or on its first lookup, before
\* any write, with posts and blobs unchanged.
C19_FrameStep ==
  /\ \A p \in Procs :
       (req[p].op = "likeUnlikePost" /\ req[p].pc # "idle" /\ req'[p].pc = "idle"
          /\ resp'.status = 200)
       => LET i == req[p].id
              u == req[p].caller
          IN  /\ i \in DOMAIN posts
              /\ posts' = [posts EXCEPT ![i].likes = posts'[i].likes]
              /\ Filter(posts'[i].likes, u) = Filter(posts[i].likes, u)
              /\ Includes(posts'[i].likes, u) # Includes(posts[i].likes, u)
              /\ blobs' = blobs
  /\ \A p \in Procs :
       (req[p].op = "replyToPost" /\ req[p].pc # "idle" /\ req'[p].pc = "idle"
          /\ resp'.status = 200)
       => LET i == req[p].id
          IN  /\ i \in DOMAIN posts
              /\ posts' = [posts EXCEPT ![i].replies = posts'[i].replies]
              /\ Len(posts'[i].replies) = Len(posts[i].replies) + 1
              /\ \E k \in 1..Len(posts'[i].replies) :
                   /\ Without(posts'[i].replies, k) = posts[i].replies
                   /\ posts'[i].replies[k].userId = req[p].caller
                   /\ posts'[i].replies[k].text = req[p].text
              /\ blobs' = blobs
  /\ \A p \in Procs :
       ( /\ req'[p] # req[p]
         /\ (req[p].pc \in FirstLookups \/ req[p].op \in Reads \/ req[p].pc = "idle") )
       => StoreUnchanged
  /\ (started' # started) => StoreUnchanged
  /\ (Answered /\ resp'.status \in {400, 401, 404})
       => /\ StoreUnchanged
          /\ \/ started' = started + 1
             \/ \E p \in Procs : req[p].pc \in FirstLookups /\ req'[p].pc = "idle"

C19_Frame == [][C19_FrameStep]_vars

\* a reply was stored on a post that holds a like: the like is still there
\* and the reply is the only one
C19_Witness ==
  /\ resp.op = "replyToPost"
  /\ resp.status = 200
  /\ resp.id \in DOMAIN posts
  /\ posts[resp.id].likes # <<>>
  /\ Len(posts[resp.id].replies) = 1
  /\ posts[resp.id].replies[1].userId = resp.caller

====
